---- MODULE Spec2Model ----
(***************************************************************************)
(* ag-jz: the sync / merge / registry / enforce / index pipeline of        *)
(* packages/ag-jz/bin/index.js.                                            *)
(*                                                                         *)
(* A directory tree is the set of its regular files, each file a path: a   *)
(* sequence of entry names.  The directories of a tree are the proper      *)
(* prefixes of its files (a fetched archive holds no empty directory).     *)
(* A file's bytes are one opaque value.                                    *)
(***************************************************************************)
EXTENDS Naturals, Sequences, FiniteSets, TLC

(***************************************************************************)
(* Bounds of the model.                                                    *)
(***************************************************************************)
\* how many downloads succeed in one behaviour (every later one fails)
MaxFetch == 2

(***************************************************************************)
(* Program constants.                                                      *)
(***************************************************************************)
AGENT_FOLDER == ".agent"

commonFolders == {"skills", "workflows", "rules", "scripts", "docs", "assets"}

exclude ==
    {".git", ".github", "node_modules", "package.json", "package-lock.json",
     ".gitignore", "README.md", "LICENSE", "packages", "assets",
     "mcp_config.json", "skills_index.json", ".sync-registry.json",
     "SECURITY.md", "release_notes.md", "CONTRIBUTING.md", "CHANGELOG.md",
     "CATALOG.md"}

globalExcludedFolders == {"docs", "bin", "lib", "packages"}

globalExcludedFiles ==
    {"SECURITY.md", "release_notes.md", "CONTRIBUTING.md", "CHANGELOG.md",
     "CATALOG.md"}

\* the three kits of `sync --all`, in the order they are pushed
DefaultKits ==
    << "github:anthonylee991/gemini-superpowers",
       "github:sickn33/antigravity-awesome-skills",
       "github:Academico-JZ/ag-jz-personal-kit" >>

Sources == {DefaultKits[n] : n \in 1..Len(DefaultKits)}

\* repoSource.replace(/[^a-zA-Z0-9]/g, '_') on the sources of the model
KitIdOf(repoSource) ==
    CASE repoSource = "github:anthonylee991/gemini-superpowers"
            -> "github_anthonylee991_gemini_superpowers"
      [] repoSource = "github:sickn33/antigravity-awesome-skills"
            -> "github_sickn33_antigravity_awesome_skills"
      [] repoSource = "github:Academico-JZ/ag-jz-personal-kit"
            -> "github_Academico_JZ_ag_jz_personal_kit"

KitIds == {KitIdOf(s) : s \in Sources}

(***************************************************************************)
(* Paths and the order in which readdirSync lists the entries of a         *)
(* directory (by name, bytewise).                                          *)
(***************************************************************************)
NameOrder ==
    << ".agent", ".hidden", "CHANGELOG.md", "GEMINI.md", "My_Skill",
       "README.md", "SKILL.md", "a.md", "cat", "docs", "guide.md",
       "package.json", "rules", "s1", "s2", "s3", "scripts", "skills", "sub" >>

NameRank(name) == CHOOSE n \in 1..Len(NameOrder) : NameOrder[n] = name

RECURSIVE PathBefore(_, _)
PathBefore(p, q) ==
    IF p = <<>> THEN q # <<>>
    ELSE IF q = <<>> THEN FALSE
    ELSE IF p[1] = q[1] THEN PathBefore(Tail(p), Tail(q))
    ELSE NameRank(p[1]) < NameRank(q[1])

\* the files of a tree in the order a depth-first walk meets them
RECURSIVE WalkOrder(_)
WalkOrder(S) ==
    IF S = {} THEN <<>>
    ELSE LET first == CHOOSE x \in S : \A y \in S \ {x} : PathBefore(x, y)
         IN  <<first>> \o WalkOrder(S \ {first})

\* the directories on the way to a file
DirsOf(p) == {SubSeq(p, 1, k) : k \in 1..(Len(p) - 1)}

Range(s) == {s[n] : n \in DOMAIN s}

RULES_DIR == <<"rules">>
RULES_FILE == <<"rules", "GEMINI.md">>
SKILLS_DIR == <<"skills">>
ROOT == <<>>

\* The bytes of the files a kit ships (each kit has bytes of its own: v1 for the
\* first default kit, v2 for the second, v3 for the third), and the bytes of
\* the tool's own assets/GEMINI.md.
BytesOf(repoSource) ==
    CASE repoSource = DefaultKits[1] -> "v1"
      [] repoSource = DefaultKits[2] -> "v2"
      [] repoSource = DefaultKits[3] -> "v3"

Golden == "golden"

(***************************************************************************)
(* What giget may leave in the temporary directory: the trees of the       *)
(* model.  Each is a set of files below the temporary directory.           *)
(***************************************************************************)
\* a kit that follows the .agent convention, with scaffolding beside it
KitAgentTree ==
    { <<".agent", "rules", "GEMINI.md">>,
      <<".agent", "skills", "s1", "SKILL.md">>,
      <<".agent", "docs", "guide.md">>,
      <<"README.md">>,
      <<"a.md">> }

\* a kit that keeps its folders at the repository root
KitRootTree ==
    { <<"skills", "s1", "SKILL.md">>,
      <<"skills", "CHANGELOG.md">>,
      <<"README.md">>,
      <<"package.json">>,
      <<"docs", "guide.md">>,
      <<"a.md">> }

\* a repository with nothing of a kit in it
KitPlainTree == { <<"README.md">>, <<"a.md">> }

\* a repository with a regular file named like a conventional folder
KitScriptTree == { <<"scripts">>, <<"README.md">> }

Trees == { KitAgentTree, KitRootTree, KitPlainTree, KitScriptTree }

(***************************************************************************)
(* mergeAgentFolder, as operators on a tree.                               *)
(***************************************************************************)
\* fs.existsSync(path.join(tempDir, AGENT_FOLDER))
HasAgentFolder(tree) == \E p \in tree : p[1] = AGENT_FOLDER

\* commonFolders.some(folder => fs.existsSync(path.join(tempDir, folder)))
HasCommonFolders(tree) == \E p \in tree : p[1] \in commonFolders

IsRootSync(tree) == ~HasAgentFolder(tree) /\ HasCommonFolders(tree)

\* the throw of line 67
NoKitContent(tree) == ~HasAgentFolder(tree) /\ ~HasCommonFolders(tree)

\* the files below sourceAgent, relative to it
SourceAgentFiles(tree) ==
    IF HasAgentFolder(tree)
    THEN {Tail(p) : p \in {q \in tree : q[1] = AGENT_FOLDER /\ Len(q) > 1}}
    ELSE tree

\* whether the walk skips the entry named rel[k], met in directory rel[1..k-1]
EntrySkipped(isRootSync, rel, k) ==
    \/ isRootSync /\ k = 1 /\ rel[k] \in exclude
    \/ rel[k] \in globalExcludedFolders
    \/ rel[k] \in globalExcludedFiles

\* the walk reaches the entry at rel: nothing on the way to it is skipped
Reached(isRootSync, rel) ==
    \A k \in 1..Len(rel) : ~EntrySkipped(isRootSync, rel, k)

\* the regular files copyRecursive tries to copy, relative to the destination
Copyable(tree) ==
    {rel \in SourceAgentFiles(tree) : Reached(IsRootSync(tree), rel)}

\* the directories copyRecursive enters (and creates when missing)
EnteredDirs(tree) ==
    {d \in UNION {DirsOf(rel) : rel \in SourceAgentFiles(tree)} :
        Reached(IsRootSync(tree), d)}

(***************************************************************************)
(* The registry: kits, a function from the registered kit ids, and files,  *)
(* a function from the registered paths.                                   *)
(***************************************************************************)
EmptyRegistry == [kits |-> <<>>, files |-> <<>>]

\* loadRegistry: the file is a sequence of at most one document
LoadRegistry(file) == IF file = <<>> THEN EmptyRegistry ELSE file[1]

\* lines 80-88
OpenKit(reg, repoSource, t) ==
    LET kitId == KitIdOf(repoSource)
        kits1 == IF kitId \in DOMAIN reg.kits THEN reg.kits
                 ELSE (kitId :> [source |-> repoSource, installedAt |-> t,
                                 lastUpdated |-> t, files |-> <<>>])
                      @@ reg.kits
    IN  [reg EXCEPT !.kits = [kits1 EXCEPT ![kitId].lastUpdated = t]]

\* lines 127-134
TrackFileAlwaysPush(reg, kitId, rel, t) ==
    [kits  |-> [reg.kits EXCEPT ![kitId].files = Append(@, rel)],
     files |-> (rel :> [kit |-> kitId, updatedAt |-> t]) @@ reg.files]

TrackFileKeepOwner(reg, kitId, rel, t) ==
    [kits  |-> [reg.kits EXCEPT ![kitId].files =
                   IF rel \in Range(@) THEN @ ELSE Append(@, rel)],
     files |-> reg.files @@ (rel :> [kit |-> kitId, updatedAt |-> t])]

TrackFileListOnly(reg, kitId, rel, t) ==
    [kits  |-> [reg.kits EXCEPT ![kitId].files =
                   IF rel \in Range(@) THEN @ ELSE Append(@, rel)],
     files |-> reg.files]

TrackFile(reg, kitId, rel, t) ==
    [kits  |-> [reg.kits EXCEPT ![kitId].files =
                   IF rel \in Range(@) THEN @ ELSE Append(@, rel)],
     files |-> (rel :> [kit |-> kitId, updatedAt |-> t]) @@ reg.files]

\* the registry after the walk copied the files of `copied`, in walk order
RECURSIVE TrackAll(_, _, _, _)
TrackAll(reg, kitId, copied, t) ==
    IF copied = <<>> THEN reg
    ELSE TrackAll(TrackFile(reg, kitId, Head(copied), t), kitId,
                  Tail(copied), t)

\* lines 121-137: the files whose copy succeeds, when copyFileSync throws on
\* the files of `failed`; the catch of line 135 lets the walk go on
CopiedFilesStopAtFailure(tree, failed) ==
    {rel \in Copyable(tree) :
        \A f \in failed \cap Copyable(tree) : PathBefore(rel, f)}

CopiedFiles(tree, failed) == Copyable(tree) \ failed

(***************************************************************************)
(* The effect of one mergeAgentFolder call that gets past line 69.         *)
(***************************************************************************)
\* fs.copyFileSync of every file of `copied`, overwriting
MergedDest(files, copied, bytes) ==
    [p \in DOMAIN files \cup copied |->
        IF p \in copied THEN bytes ELSE files[p]]

\* lines 72-74 and 116-119: the directories made when missing
MergedDirs(ds, tree) == ds \cup {ROOT} \cup EnteredDirs(tree)

\* lines 77-88 and 127-134: the registry that line 153 saves
MergedRegistryForgetOthers(file, repoSource, copied, t) ==
    TrackAll(OpenKit(EmptyRegistry, repoSource, t), KitIdOf(repoSource),
             WalkOrder(copied), t)

MergedRegistry(file, repoSource, copied, t) ==
    TrackAll(OpenKit(LoadRegistry(file), repoSource, t), KitIdOf(repoSource),
             WalkOrder(copied), t)

(***************************************************************************)
(* generateSkillsIndex, as operators on the target directory.              *)
(***************************************************************************)
\* folderName.toLowerCase().replace(/[^a-z0-9]/g, '-') on the names of the model
Slug(folderName) ==
    CASE folderName = "My_Skill" -> "my-skill"
      [] folderName = ".hidden"  -> "-hidden"
      [] OTHER                   -> folderName

\* entry.name.startsWith('.')
StartsWithDot(name) == name \in {".agent", ".hidden"}

\* the frontmatter of a marker file: v1 has none, v2 opens with
\* "---\nname: Foo\ndescription: Bar\n---"
HasFrontmatter(bytes) == bytes = "v2"

SkillName(bytes, folderName) == IF HasFrontmatter(bytes) THEN "Foo" ELSE folderName

SkillDescription(bytes) == IF HasFrontmatter(bytes) THEN "Bar" ELSE ""

\* entries.some(e => e.name.toLowerCase() === 'skill.md')
HasSkillMd(files, currentPath) == Append(currentPath, "SKILL.md") \in DOMAIN files

\* the sub-directories of currentPath that the loop of line 214 visits, in order
VisitedSubdirs(ds, currentPath) ==
    LET names == {n \in Range(NameOrder) :
                     Append(currentPath, n) \in ds /\ ~StartsWithDot(n)}
    IN  WalkOrder({<<n>> : n \in names})

\* lines 199-210
SkillEntry(files, currentPath, parentCategory) ==
    LET folderName == currentPath[Len(currentPath)]
        bytes == files[Append(currentPath, "SKILL.md")]
    IN  [id          |-> Slug(folderName),
         path        |-> IF parentCategory # ""
                         THEN <<".agent", "skills", parentCategory, folderName>>
                         ELSE <<".agent", "skills", folderName>>,
         category    |-> IF parentCategory # "" THEN parentCategory ELSE "general",
         name        |-> SkillName(bytes, folderName),
         description |-> SkillDescription(bytes),
         risk        |-> "low",
         source      |-> "local"]

RECURSIVE ProcessDir(_, _, _, _)
RECURSIVE ProcessEach(_, _, _, _)
\* the calls of line 216, one per visited sub-directory
ProcessEach(files, ds, currentPath, subdirs) ==
    IF subdirs = <<>> THEN <<>>
    ELSE ProcessDir(files, ds, currentPath \o Head(subdirs), Head(subdirs)[1])
         \o ProcessEach(files, ds, currentPath, Tail(subdirs))

\* processDir: the entries it pushes, in order
ProcessDir(files, ds, currentPath, parentCategory) ==
    IF HasSkillMd(files, currentPath)
    THEN <<SkillEntry(files, currentPath, parentCategory)>>
    ELSE IF parentCategory = ""
         THEN ProcessEach(files, ds, currentPath, VisitedSubdirs(ds, currentPath))
         ELSE <<>>

\* the index file after generateSkillsIndex
GeneratedIndex(files, ds, old) ==
    IF SKILLS_DIR \notin ds THEN old
    ELSE <<ProcessDir(files, ds, SKILLS_DIR, "")>>

(***************************************************************************)
(* enforceGoldenRules, as operators on the target directory.               *)
(***************************************************************************)
\* lines 33-35
EnforcedDirs(ds) == ds \cup {ROOT, RULES_DIR}

\* lines 37-41; copyOk is whether fs.copyFileSync returned
EnforcedDestKeepExisting(files, assetFile, copyOk) ==
    IF assetFile # <<>> /\ copyOk /\ RULES_FILE \notin DOMAIN files
    THEN (RULES_FILE :> assetFile[1]) @@ files
    ELSE files

EnforcedDest(files, assetFile, copyOk) ==
    IF assetFile # <<>> /\ copyOk
    THEN (RULES_FILE :> assetFile[1]) @@ files
    ELSE files

(***************************************************************************)
(* State.                                                                  *)
(***************************************************************************)
VARIABLES
    dest,          \* the regular files below targetDir: path -> bytes
    dirs,          \* the directories below targetDir (ROOT is targetDir itself)
    registryFile,  \* .sync-registry.json: <<>> when absent, else <<registry>>
    indexFile,     \* skills_index.json: <<>> when absent, else <<entries>>
    assetFile,     \* the tool's assets/GEMINI.md: <<>> when absent, else <<bytes>>
    now,           \* the clock new Date() reads
    pc,            \* where the running command stands; "idle" when none runs
    kitsToSync,    \* syncCommand's list of sources
    next,          \* position of the for loop in kitsToSync
    tmpDir,        \* what giget left: <<>> or <<[tree, bytes]>>
    log,           \* what the running sync reported so far
    exitCode,      \* exit status of the last finished command
    last,          \* the last call of merge / enforce / index and its outcome
    writers,       \* history: path -> the kits whose merges copied it, and the latest
    lastSource     \* history: kit id -> the tree its latest returned merge had

vars ==
    << dest, dirs, registryFile, indexFile, assetFile, now, pc, kitsToSync,
       next, tmpDir, log, exitCode, last, writers, lastSource >>

target == << dest, dirs, registryFile, indexFile >>
loop == << kitsToSync, next, tmpDir, log >>
history == << writers, lastSource >>

Call(op, repoSource, tree, copied, failed, threw) ==
    [op |-> op, source |-> repoSource, tree |-> tree, copied |-> copied,
     failed |-> failed, threw |-> threw, rerun |-> FALSE]

Init ==
    /\ dest = <<>>
    /\ dirs = {}
    /\ registryFile = <<>>
    /\ indexFile = <<>>
    /\ assetFile = <<Golden>>
    /\ now = 0
    /\ pc = "idle"
    /\ kitsToSync = <<>>
    /\ next = 1
    /\ tmpDir = <<>>
    /\ log = <<>>
    /\ exitCode = 0
    /\ last = Call("none", "", {}, {}, {}, FALSE)
    /\ writers = <<>>
    /\ lastSource = <<>>

(***************************************************************************)
(* syncCommand.                                                            *)
(***************************************************************************)
\* where the for loop of line 268 goes after the source at position k
AfterSourceStop(k, list) == "enforce"

AfterSource(k, list) == IF k < Len(list) THEN "fetch" ELSE "enforce"

\* lines 256-258: a source argument
SyncSource(repoSource) ==
    /\ pc = "idle"
    /\ kitsToSync' = <<repoSource>>
    /\ next' = 1
    /\ pc' = "fetch"
    /\ log' = <<>>
    /\ UNCHANGED << target, assetFile, now, tmpDir, exitCode, last, history >>

\* lines 259-262: --all
SyncAll ==
    /\ pc = "idle"
    /\ kitsToSync' = DefaultKits
    /\ next' = 1
    /\ pc' = "fetch"
    /\ log' = <<>>
    /\ UNCHANGED << target, assetFile, now, tmpDir, exitCode, last, history >>

\* lines 263-266: neither a source nor --all
SyncNoArgument ==
    /\ pc = "idle"
    /\ exitCode' = 1
    /\ UNCHANGED << target, assetFile, now, pc, loop, last, history >>

\* lines 271-272, giget resolves: the download took time
FetchOk(tree) ==
    /\ pc = "fetch"
    /\ now < MaxFetch
    /\ now' = now + 1
    /\ tmpDir' = <<[tree |-> tree, bytes |-> BytesOf(kitsToSync[next])]>>
    /\ pc' = "merge"
    /\ UNCHANGED << target, assetFile, kitsToSync, next, log, exitCode, last, history >>

\* lines 272, 278-280, giget rejects
FetchFail ==
    /\ pc = "fetch"
    /\ log' = Append(log, [source |-> kitsToSync[next], event |-> "fetch failed"])
    /\ pc' = AfterSource(next, kitsToSync)
    /\ next' = next + 1
    /\ UNCHANGED << target, assetFile, now, kitsToSync, tmpDir, exitCode, last, history >>

\* line 275 throwing at line 67, caught at line 278
MergeThrows ==
    /\ pc = "merge"
    /\ NoKitContent(tmpDir[1].tree)
    /\ log' = Append(log, [source |-> kitsToSync[next], event |-> "merge failed"])
    /\ last' = Call("merge", kitsToSync[next], tmpDir[1].tree, {}, {}, TRUE)
    /\ pc' = AfterSource(next, kitsToSync)
    /\ next' = next + 1
    /\ tmpDir' = <<>>
    /\ UNCHANGED << target, assetFile, now, kitsToSync, exitCode, history >>

\* line 275 returning; `failed` are the files whose copyFileSync threw
MergeReturns ==
    /\ pc = "merge"
    /\ ~NoKitContent(tmpDir[1].tree)
    /\ \E failed \in SUBSET Copyable(tmpDir[1].tree) :
         LET tree   == tmpDir[1].tree
             kitId  == KitIdOf(kitsToSync[next])
             copied == CopiedFiles(tree, failed)
         IN  /\ dest' = MergedDest(dest, copied, tmpDir[1].bytes)
             /\ dirs' = MergedDirs(dirs, tree)
             /\ registryFile' =
                    <<MergedRegistry(registryFile, kitsToSync[next], copied, now)>>
             /\ last' = [Call("merge", kitsToSync[next], tree, copied, failed, FALSE)
                            EXCEPT !.rerun = kitId \in DOMAIN lastSource
                                             /\ lastSource[kitId] = tree]
             /\ writers' =
                    [p \in DOMAIN writers \cup copied |->
                        IF p \notin copied THEN writers[p]
                        ELSE [by |-> (IF p \in DOMAIN writers THEN writers[p].by
                                      ELSE {}) \cup {kitId},
                              latest |-> kitId]]
             /\ lastSource' = (kitId :> tree) @@ lastSource
    /\ log' = Append(log, [source |-> kitsToSync[next], event |-> "synced"])
    /\ pc' = AfterSource(next, kitsToSync)
    /\ next' = next + 1
    /\ tmpDir' = <<>>
    /\ UNCHANGED << indexFile, assetFile, now, kitsToSync, exitCode >>

\* lines 284-286
SyncEnforce(copyOk) ==
    /\ pc = "enforce"
    /\ dirs' = EnforcedDirs(dirs)
    /\ dest' = EnforcedDest(dest, assetFile, copyOk)
    /\ last' = Call("enforce", "", {}, {},
                    IF assetFile # <<>> /\ ~copyOk THEN {RULES_FILE} ELSE {}, FALSE)
    /\ log' = Append(log, [source |-> "", event |-> "enforced"])
    /\ pc' = "index"
    /\ UNCHANGED << registryFile, indexFile, assetFile, now, kitsToSync, next,
                    tmpDir, exitCode, history >>

\* the exit status of a syncCommand that ran to line 295
ExitOfSync(reports) == 0

\* lines 289-295; the process ends and its locals with it
SyncIndex ==
    /\ pc = "index"
    /\ indexFile' = GeneratedIndex(dest, dirs, indexFile)
    /\ last' = Call("index", "", {}, {}, {}, FALSE)
    /\ exitCode' = ExitOfSync(log)
    /\ pc' = "idle"
    /\ kitsToSync' = <<>>
    /\ next' = 1
    /\ log' = <<>>
    /\ UNCHANGED << dest, dirs, registryFile, assetFile, now, tmpDir, history >>

Next ==
    \/ \E s \in Sources : SyncSource(s)
    \/ SyncAll
    \/ \E tree \in Trees : FetchOk(tree)
    \/ FetchFail
    \/ MergeThrows
    \/ MergeReturns
    \/ SyncEnforce(TRUE)
    \/ SyncIndex

Spec == Init /\ [][Next]_vars

(***************************************************************************)
(* The commands on a target directory the operator already keeps: any      *)
(* content below it, the tool's asset installed or not, downloads failing. *)
(***************************************************************************)
TargetFiles ==
    { RULES_FILE,
      <<"skills", "SKILL.md">>,
      <<"skills", "s1", "SKILL.md">>,
      <<"skills", "s1", "sub", "SKILL.md">>,
      <<"skills", "cat", "s2", "SKILL.md">>,
      <<"skills", "cat", "s3", "SKILL.md">>,
      <<"skills", "My_Skill", "SKILL.md">>,
      <<"skills", ".hidden", "SKILL.md">> }

InitTarget ==
    /\ \E present \in SUBSET TargetFiles, bytes \in {"v1", "v2"},
          empty \in SUBSET {ROOT, RULES_DIR, SKILLS_DIR} :
          /\ ROOT \in empty \/ (present = {} /\ empty = {})
          /\ dest = [p \in present |-> bytes]
          /\ dirs = UNION {DirsOf(p) : p \in present} \cup empty
    /\ registryFile = <<>>
    /\ indexFile = <<>>
    /\ assetFile \in {<<>>, <<Golden>>}
    /\ now = 0
    /\ pc = "idle"
    /\ kitsToSync = <<>>
    /\ next = 1
    /\ tmpDir = <<>>
    /\ log = <<>>
    /\ exitCode = 0
    /\ last = Call("none", "", {}, {}, {}, FALSE)
    /\ writers = <<>>
    /\ lastSource = <<>>

\* enforceCommand, lines 353-360
EnforceCommand(copyOk) ==
    /\ pc = "idle"
    /\ dirs' = EnforcedDirs(dirs)
    /\ dest' = EnforcedDest(dest, assetFile, copyOk)
    /\ last' = Call("enforce", "", {}, {},
                    IF assetFile # <<>> /\ ~copyOk THEN {RULES_FILE} ELSE {}, FALSE)
    /\ exitCode' = 0
    /\ UNCHANGED << registryFile, indexFile, assetFile, now, pc, loop, history >>

\* the operator deletes the skills folder
OperatorRemovesSkills ==
    /\ pc = "idle"
    /\ SKILLS_DIR \in dirs
    /\ dirs' = {d \in dirs : d = ROOT \/ d[1] # "skills"}
    /\ dest' = [p \in {q \in DOMAIN dest : q[1] # "skills"} |-> dest[p]]
    /\ last' = Call("edit", "", {}, {}, {}, FALSE)
    /\ UNCHANGED << registryFile, indexFile, assetFile, now, pc, loop, exitCode,
                    history >>

\* the operator writes a skill of their own
OperatorAddsSkill ==
    /\ pc = "idle"
    /\ ROOT \in dirs
    /\ <<"skills", "s1", "SKILL.md">> \notin DOMAIN dest
    /\ dirs' = dirs \cup {SKILLS_DIR, <<"skills", "s1">>}
    /\ dest' = (<<"skills", "s1", "SKILL.md">> :> "v2") @@ dest
    /\ last' = Call("edit", "", {}, {}, {}, FALSE)
    /\ UNCHANGED << registryFile, indexFile, assetFile, now, pc, loop, exitCode,
                    history >>

NextTarget ==
    \/ \E s \in Sources : SyncSource(s)
    \/ SyncNoArgument
    \/ FetchFail
    \/ \E copyOk \in BOOLEAN : SyncEnforce(copyOk)
    \/ SyncIndex
    \/ \E copyOk \in BOOLEAN : EnforceCommand(copyOk)
    \/ OperatorRemovesSkills
    \/ OperatorAddsSkill

SpecTarget == InitTarget /\ [][NextTarget]_vars

(***************************************************************************)
(* Properties of the sync pipeline (specification Spec).                   *)
(***************************************************************************)
\* the registry a command would load now
Reg == LoadRegistry(registryFile)

\* the files list of a kit, empty while the kit is not registered
FilesOf(reg, kitId) == IF kitId \in DOMAIN reg.kits THEN reg.kits[kitId].files ELSE <<>>

NoDuplicates(s) == \A m, n \in DOMAIN s : s[m] = s[n] => m = n

\* this step is a call of mergeAgentFolder (line 275)
MergeStep == pc = "merge" /\ pc' # "merge"

\* C1: when the merges of two distinct kits A and B both copied path P, and
\* B's copy is the later one, the ownership map gives P to B (not to A) while
\* P is in the files list of both kits.
C1_LastWriterOwns ==
    \A P \in DOMAIN writers : \A A, B \in writers[P].by :
        (A # B /\ writers[P].latest = B) =>
            /\ P \in DOMAIN Reg.files
            /\ Reg.files[P].kit = B
            /\ Reg.files[P].kit # A
            /\ P \in Range(FilesOf(Reg, A))
            /\ P \in Range(FilesOf(Reg, B))

\* two kits copied the same path
C1_Witness ==
    \E P \in DOMAIN writers : Cardinality(writers[P].by) >= 2

HasConventionalFolder(tree) == \E p \in tree : p[1] \in commonFolders /\ Len(p) > 1

\* C3: a merge of a source with no .agent folder and none of the top-level
\* folders skills, workflows, rules, scripts, docs, assets throws, copies
\* nothing and leaves the destination and the persisted registry as they were.
C3_NoKitContentChangesNothing ==
    [][ (MergeStep /\ ~HasAgentFolder(tmpDir[1].tree)
                   /\ ~HasConventionalFolder(tmpDir[1].tree)) =>
            (last'.threw /\ last'.copied = {} /\ UNCHANGED target)
      ]_vars

\* the reports of the sources the loop is done with
SourceReports == SelectSeq(log, LAMBDA r : r.source # "")

\* the steps of the source loop and of the enforcement that follows it (the
\* index generation that closes the run has no condition but its turn)
LoopStep ==
    FetchFail \/ MergeThrows \/ MergeReturns \/ SyncEnforce(TRUE)

\* C6: in a sync run the sources are reported in list order, one at a time,
\* and the loop goes on to the next source after a failed download or a failed
\* merge as after a success; enforcement starts only when every source has
\* its report, whatever the reports say; the index is generated only after
\* enforcement and the run ends only after the index; the loop and the
\* enforcement can always take their next step; and the run ends with exit
\* status 0.
C6_SyncRunsToTheEnd ==
    /\ pc \in {"idle", "fetch", "merge", "enforce", "index"}
    /\ pc \in {"fetch", "merge"} =>
          /\ next \in 1..Len(kitsToSync)
          /\ Len(log) = next - 1
    /\ pc = "merge" => tmpDir # <<>>
    /\ pc \in {"enforce", "index"} => next = Len(kitsToSync) + 1
    /\ pc # "idle" =>
          /\ Len(SourceReports) = next - 1
          /\ \A n \in 1..(next - 1) :
                /\ log[n].source = kitsToSync[n]
                /\ log[n].event \in {"fetch failed", "merge failed", "synced"}
    /\ pc \in {"fetch", "merge", "enforce"} => ENABLED LoopStep
    /\ pc = "enforce" => Len(log) = Len(kitsToSync)
    /\ pc = "index" =>
          /\ Len(log) = Len(kitsToSync) + 1
          /\ log[Len(log)].event = "enforced"
          /\ last.op = "enforce"
    /\ pc = "idle" =>
          /\ last.op \in {"none", "index"}
          /\ exitCode = 0

\* a run in which an earlier source failed and a later one was merged, at the
\* point where enforcement has run and the index is about to be generated
C6_Witness ==
    /\ pc = "index"
    /\ \E m, n \in DOMAIN log :
          /\ m < n
          /\ log[m].event \in {"fetch failed", "merge failed"}
          /\ log[n].event = "synced"

\* C7: a merge removes no file and no directory of the destination; a path it
\* did not copy keeps its bytes and its ownership entry; every other kit keeps
\* its registry entry; and no step ever shrinks the sets of registered kits and
\* registered paths.
C7_MergeIsNonDestructive ==
    [][ /\ MergeStep =>
              /\ dirs \subseteq dirs'
              /\ DOMAIN dest \subseteq DOMAIN dest'
              /\ \A Q \in DOMAIN dest \ last'.copied : dest'[Q] = dest[Q]
              /\ \A Q \in DOMAIN Reg.files \ last'.copied :
                    Q \in DOMAIN Reg'.files /\ Reg'.files[Q] = Reg.files[Q]
              /\ \A K \in DOMAIN Reg.kits \ {KitIdOf(last'.source)} :
                    K \in DOMAIN Reg'.kits /\ Reg'.kits[K] = Reg.kits[K]
        /\ DOMAIN Reg.kits \subseteq DOMAIN Reg'.kits
        /\ DOMAIN Reg.files \subseteq DOMAIN Reg'.files
      ]_vars

\* a merge has returned that left alone a file another kit had written
C7_Witness ==
    /\ last.op = "merge"
    /\ last.copied # {}
    /\ \E Q \in DOMAIN writers \ last.copied :
          /\ writers[Q].latest # KitIdOf(last.source)
          /\ Q \in DOMAIN dest

\* C8: a merge that gets past the structure check returns whichever copies
\* fail: every other copyable file of the source is in the destination with
\* the source's bytes, the registry is saved, and the merge records a path
\* (in the kit's files list, and as the kit's in the ownership map with the
\* time of the merge) exactly when it copied it; the ownership entry of a path
\* whose copy failed is the one it had.
C8_CopyFailureIsLocal ==
    [][ (MergeStep /\ ~NoKitContent(tmpDir[1].tree)) =>
            LET kitId == KitIdOf(last'.source)
                tree  == tmpDir[1].tree
            IN  /\ ~last'.threw
                /\ registryFile' # <<>>
                /\ last'.copied = Copyable(tree) \ last'.failed
                /\ \A p \in Copyable(tree) \ last'.failed :
                      /\ p \in DOMAIN dest' /\ dest'[p] = tmpDir[1].bytes
                      /\ Reg'.files[p] = [kit |-> kitId, updatedAt |-> now]
                      /\ p \in Range(FilesOf(Reg', kitId))
                /\ \A p \in (DOMAIN Reg'.files \cup Range(FilesOf(Reg', kitId)))
                            \ last'.copied :
                      /\ p \in Range(FilesOf(Reg', kitId)) <=> p \in Range(FilesOf(Reg, kitId))
                      /\ p \in DOMAIN Reg.files /\ Reg'.files[p] = Reg.files[p]
                /\ \A p \in last'.failed :
                      /\ p \in DOMAIN Reg'.files <=> p \in DOMAIN Reg.files
                      /\ p \in DOMAIN Reg.files => Reg'.files[p] = Reg.files[p]
                      /\ p \in DOMAIN dest' <=> p \in DOMAIN dest
                      /\ p \in DOMAIN dest => dest'[p] = dest[p]
      ]_vars

\* a merge in which the copy of a file another kit owns failed, and a file the
\* walk meets after it was copied
C8_Witness ==
    /\ last.op = "merge"
    /\ \E f \in last.failed, p \in last.copied :
          /\ PathBefore(f, p)
          /\ f \in DOMAIN Reg.files
          /\ Reg.files[f].kit # KitIdOf(last.source)

\* C10: in the persisted registry, the kit of every path of the ownership map
\* is a registered kit whose files list holds the path, and every path of
\* every files list is in the ownership map.
C10_RegistryCrossConsistent ==
    /\ \A P \in DOMAIN Reg.files :
          /\ Reg.files[P].kit \in DOMAIN Reg.kits
          /\ P \in Range(Reg.kits[Reg.files[P].kit].files)
    /\ \A K \in DOMAIN Reg.kits :
          \A P \in Range(Reg.kits[K].files) : P \in DOMAIN Reg.files

\* a registry of two kits with files, written by a merge in which a copy
\* failed, after another merge had failed on the structure of its source
C10_Witness ==
    /\ Cardinality(DOMAIN Reg.kits) >= 2
    /\ \A K \in DOMAIN Reg.kits : Reg.kits[K].files # <<>>
    /\ last.op = "merge" /\ last.failed # {} /\ last.copied # {}

(***************************************************************************)
(* Properties of the commands on an existing target (SpecTarget).          *)
(***************************************************************************)
\* the entries of the index file; none while there is no file
IndexEntries == IF indexFile = <<>> THEN <<>> ELSE indexFile[1]

\* the skill folders at the given depth below skills/ that the walk may visit:
\* they hold a marker file, no name on the way starts with a dot, and the
\* category folder above a nested one is not a skill folder itself
SkillFoldersAt(depth) ==
    {d \in dirs :
        /\ Len(d) = depth + 1
        /\ d[1] = "skills"
        /\ HasSkillMd(dest, d)
        /\ \A k \in 2..Len(d) : ~StartsWithDot(d[k])
        /\ \A k \in 2..(Len(d) - 1) : ~HasSkillMd(dest, SubSeq(d, 1, k))}

\* how many entries the index holds for a folder under a category
EntriesFor(folderName, category) ==
    Cardinality({n \in DOMAIN IndexEntries :
                    /\ IndexEntries[n].id = Slug(folderName)
                    /\ IndexEntries[n].category = category})

\* C4: after the index is generated for a skills folder that has no marker
\* file itself, every skill folder directly inside it has exactly one entry,
\* of category "general", every skill folder inside a category folder has
\* exactly one entry, of the category folder's name, and there is no other
\* entry (one skill and a category of two give exactly three entries).
C4_OneEntryPerSkillFolder ==
    (last.op = "index" /\ SKILLS_DIR \in dirs /\ ~HasSkillMd(dest, SKILLS_DIR)) =>
        /\ \A d \in SkillFoldersAt(1) : EntriesFor(d[2], "general") = 1
        /\ \A d \in SkillFoldersAt(2) : EntriesFor(d[3], d[2]) = 1
        /\ Len(IndexEntries) =
              Cardinality(SkillFoldersAt(1)) + Cardinality(SkillFoldersAt(2))

C9_IndexHoldsOnlyCurrentSkills ==
    last.op = "index" =>
        /\ \A n \in DOMAIN IndexEntries :
              \E d \in dirs : /\ d # ROOT
                              /\ d[1] = "skills"
                              /\ HasSkillMd(dest, d)
                              /\ Slug(d[Len(d)]) = IndexEntries[n].id
        /\ SKILLS_DIR \notin dirs => IndexEntries = <<>>

====
